---- MODULE Spec2Model ----
(***************************************************************************)
(* Model of the data-normalisation core of the media planner               *)
(* (utils/dataProcessing: processCSVFile, findColumnMatch,                 *)
(* validateMediaData, calculateBasicMetrics, getDataSummary,               *)
(* prepareDataForAI),                                                      *)
(* and of the component that uses it (MediaPlannerApp: handleFileUpload,   *)
(* analyzeMediaData, the tabs) with the service it calls                   *)
(* (ClaudeApiService).  Spec is the core, one call on one table; AppSpec   *)
(* is the component, its handlers interleaved at their awaits.             *)
(*                                                                         *)
(* JavaScript strings are sequences of one-character strings.  JavaScript  *)
(* numbers are integers counted in hundredths (230 is 2.3, 4500000 is      *)
(* 45000).  JavaScript objects are functions from the names of the         *)
(* properties they have; an absent property reads as undefined.  A call    *)
(* yields [kind |-> "return", value |-> v] or [kind |-> "throw",           *)
(* error |-> e].                                                           *)
(***************************************************************************)
EXTENDS Integers, Sequences, FiniteSets, TLC

VARIABLES table, out,
          uploadedData, analysisResults, recommendations, isAnalyzing,
          analysisProgress, activeTab, error, validationResult,
          uploads, runs, timers, started, chosen, requests

\* The state of the component MediaPlannerApp: its eight useState cells, the
\* files being parsed (uploads), the analysis runs awaiting the service
\* (runs), the pending setTimeout callbacks (timers), the number of runs
\* started and of files chosen, and the requests sent to the service, in order
appVars ==
  <<uploadedData, analysisResults, recommendations, isAnalyzing,
    analysisProgress, activeTab, error, validationResult,
    uploads, runs, timers, started, chosen, requests>>

vars == <<table, out, appVars>>

\* ------------------------------------------------------------------ values

null == [js |-> "null"]

undefined == [js |-> "undefined"]

Str(s) == [js |-> "string", s |-> s]

Num(n) == [js |-> "number", v |-> n]

NaN == [js |-> "number", nan |-> TRUE]

Return(v) == [kind |-> "return", value |-> v]

Throw(e) == [kind |-> "throw", error |-> e]

\* Property access obj.k
Get(obj, k) == IF k \in DOMAIN obj THEN obj[k] ELSE undefined

\* ----------------------------------------------------------------- strings

WhiteSpace == {" ", "\t"}

\* The lower-case letter of each upper-case letter
LowerCaseOf ==
  ("A" :> "a") @@ ("B" :> "b") @@ ("C" :> "c") @@ ("D" :> "d") @@ ("E" :> "e") @@
  ("F" :> "f") @@ ("G" :> "g") @@ ("H" :> "h") @@ ("I" :> "i") @@ ("J" :> "j") @@
  ("K" :> "k") @@ ("L" :> "l") @@ ("M" :> "m") @@ ("N" :> "n") @@ ("O" :> "o") @@
  ("P" :> "p") @@ ("Q" :> "q") @@ ("R" :> "r") @@ ("S" :> "s") @@ ("T" :> "t") @@
  ("U" :> "u") @@ ("V" :> "v") @@ ("W" :> "w") @@ ("X" :> "x") @@ ("Y" :> "y") @@
  ("Z" :> "z")

Digits == <<"0","1","2","3","4","5","6","7","8","9">>

toLowerCaseChar(c) == IF c \in DOMAIN LowerCaseOf THEN LowerCaseOf[c] ELSE c

\* The array a function on 1..n stands for, its elements computed once
array(f) == f \o <<>>

\* String.prototype.toLowerCase
toLowerCase(s) == array([i \in 1..Len(s) |-> toLowerCaseChar(s[i])])

\* String.prototype.trimStart
RECURSIVE trimStart(_)
trimStart(s) ==
  IF s = <<>> \/ Head(s) \notin WhiteSpace THEN s ELSE trimStart(Tail(s))

\* String.prototype.trimEnd
RECURSIVE trimEnd(_)
trimEnd(s) ==
  IF s = <<>> \/ s[Len(s)] \notin WhiteSpace THEN s
  ELSE trimEnd(SubSeq(s, 1, Len(s) - 1))

\* String.prototype.trim
trim(s) == trimEnd(trimStart(s))

\* s.replace(/\s+/g, '_'): every maximal run of whitespace becomes one '_'
RECURSIVE replaceWhitespaceRuns(_)
replaceWhitespaceRuns(s) ==
  IF s = <<>> THEN <<>>
  ELSE IF Head(s) \in WhiteSpace
       THEN IF Len(s) > 1 /\ s[2] \in WhiteSpace
            THEN replaceWhitespaceRuns(Tail(s))
            ELSE <<"_">> \o replaceWhitespaceRuns(Tail(s))
       ELSE <<Head(s)>> \o replaceWhitespaceRuns(Tail(s))

\* s.replace(/[cs]/g, ''): the characters of cs removed
removeChars(s, cs) == SelectSeq(s, LAMBDA c : c \notin cs)

\* String.prototype.includes
includes(s, part) ==
  \E i \in 0..(Len(s) - Len(part)) : \A j \in 1..Len(part) : s[i + j] = part[j]

\* Decimal digits of a natural number
RECURSIVE natToString(_)
natToString(n) ==
  IF n < 10 THEN <<Digits[n + 1]>>
  ELSE natToString(n \div 10) \o <<Digits[(n % 10) + 1]>>

\* Number.prototype.toString of a number held in hundredths
numberToString(n) ==
  LET a == IF n < 0 THEN 0 - n ELSE n
      whole == natToString(a \div 100)
      frac == a % 100
      fracText == IF frac = 0 THEN <<>>
                  ELSE IF frac % 10 = 0 THEN <<".", Digits[(frac \div 10) + 1]>>
                  ELSE <<".", Digits[(frac \div 10) + 1], Digits[(frac % 10) + 1]>>
  IN (IF n < 0 THEN <<"-">> ELSE <<>>) \o whole \o fracText

\* h.toString() of a header cell: a string is itself, a number its decimal
\* text, and null or undefined has no toString (TypeError)
hasToString(cell) == cell.js \in {"string", "number"}

toString(cell) == IF cell.js = "string" THEN cell.s ELSE numberToString(cell.v)

\* --------------------------------------------------------------- catalogue

COLUMN_MAPPINGS ==
  [ channel |-> <<
        <<"c","h","a","n","n","e","l">>,   \* 'channel'
        <<"p","l","a","t","f","o","r","m">>,   \* 'platform'
        <<"m","e","d","i","a">>,   \* 'media'
        <<"s","o","u","r","c","e">>,   \* 'source'
        <<"c","a","m","p","a","i","g","n","_","t","y","p","e">>,   \* 'campaign_type'
        <<"a","d","_","p","l","a","t","f","o","r","m">>,   \* 'ad_platform'
        <<"a","d","v","e","r","t","i","s","i","n","g","_","c","h","a","n","n","e","l">>,   \* 'advertising_channel'
        <<"m","e","d","i","a","_","c","h","a","n","n","e","l">>,   \* 'media_channel'
        <<"p","l","a","c","e","m","e","n","t">>,   \* 'placement'
        <<"v","e","n","d","o","r">>    \* 'vendor'
      >>,
    ctr |-> <<
        <<"c","t","r">>,   \* 'ctr'
        <<"c","l","i","c","k","_","t","h","r","o","u","g","h","_","r","a","t","e">>,   \* 'click_through_rate'
        <<"c","l","i","c","k","-","t","h","r","o","u","g","h","-","r","a","t","e">>,   \* 'click-through-rate'
        <<"c","l","i","c","k","t","h","r","o","u","g","h","_","r","a","t","e">>,   \* 'clickthrough_rate'
        <<"c","l","i","c","k","_","r","a","t","e">>,   \* 'click_rate'
        <<"c","l","i","c","k","s","_","p","e","r","_","i","m","p","r","e","s","s","i","o","n">>,   \* 'clicks_per_impression'
        <<"c","l","i","c","k","_","p","e","r","c","e","n","t","a","g","e">>,   \* 'click_percentage'
        <<"c","t","r","_","%">>,   \* 'ctr_%'
        <<"c","t","r","%">>,   \* 'ctr%'
        <<"c","l","i","c","k","_","t","h","r","u","_","r","a","t","e">>,   \* 'click_thru_rate'
        <<"e","n","g","a","g","e","m","e","n","t","_","r","a","t","e">>    \* 'engagement_rate'
      >>,
    cpm |-> <<
        <<"c","p","m">>,   \* 'cpm'
        <<"c","o","s","t","_","p","e","r","_","m","i","l","l","e">>,   \* 'cost_per_mille'
        <<"c","o","s","t","_","p","e","r","_","t","h","o","u","s","a","n","d">>,   \* 'cost_per_thousand'
        <<"c","o","s","t","_","p","e","r","_","1","0","0","0">>,   \* 'cost_per_1000'
        <<"c","o","s","t","_","p","e","r","_","1","k">>,   \* 'cost_per_1k'
        <<"c","p","t">>,   \* 'cpt'
        <<"c","o","s","t","_","p","e","r","_","i","m","p","r","e","s","s","i","o","n">>,   \* 'cost_per_impression'
        <<"i","m","p","r","e","s","s","i","o","n","_","c","o","s","t">>,   \* 'impression_cost'
        <<"c","o","s","t","_","p","e","r","_","m">>,   \* 'cost_per_m'
        <<"c","o","s","t","_","p","e","r","_","t","h","o","u","s","a","n","d","_","i","m","p","r","e","s","s","i","o","n","s">>,   \* 'cost_per_thousand_impressions'
        <<"c","p","m","_","c","o","s","t">>    \* 'cpm_cost'
      >>,
    reach |-> <<
        <<"r","e","a","c","h">>,   \* 'reach'
        <<"t","o","t","a","l","_","r","e","a","c","h">>,   \* 'total_reach'
        <<"u","n","i","q","u","e","_","r","e","a","c","h">>,   \* 'unique_reach'
        <<"a","u","d","i","e","n","c","e","_","r","e","a","c","h">>,   \* 'audience_reach'
        <<"p","e","o","p","l","e","_","r","e","a","c","h","e","d">>,   \* 'people_reached'
        <<"u","n","i","q","u","e","_","u","s","e","r","s">>,   \* 'unique_users'
        <<"t","o","t","a","l","_","a","u","d","i","e","n","c","e">>,   \* 'total_audience'
        <<"i","m","p","r","e","s","s","i","o","n","s","_","r","e","a","c","h">>,   \* 'impressions_reach'
        <<"u","n","d","u","p","l","i","c","a","t","e","d","_","r","e","a","c","h">>,   \* 'unduplicated_reach'
        <<"n","e","t","_","r","e","a","c","h">>,   \* 'net_reach'
        <<"c","o","v","e","r","a","g","e">>    \* 'coverage'
      >>,
    frequency |-> <<
        <<"f","r","e","q","u","e","n","c","y">>,   \* 'frequency'
        <<"a","v","g","_","f","r","e","q","u","e","n","c","y">>,   \* 'avg_frequency'
        <<"a","v","e","r","a","g","e","_","f","r","e","q","u","e","n","c","y">>,   \* 'average_frequency'
        <<"f","r","e","q">>,   \* 'freq'
        <<"i","m","p","r","e","s","s","i","o","n","_","f","r","e","q","u","e","n","c","y">>,   \* 'impression_frequency'
        <<"c","o","n","t","a","c","t","_","f","r","e","q","u","e","n","c","y">>,   \* 'contact_frequency'
        <<"e","x","p","o","s","u","r","e","_","f","r","e","q","u","e","n","c","y">>,   \* 'exposure_frequency'
        <<"f","r","e","q","u","e","n","c","y","_","a","v","g">>,   \* 'frequency_avg'
        <<"t","i","m","e","s","_","s","e","e","n">>    \* 'times_seen'
      >>,
    impressions |-> <<
        <<"i","m","p","r","e","s","s","i","o","n","s">>,   \* 'impressions'
        <<"t","o","t","a","l","_","i","m","p","r","e","s","s","i","o","n","s">>,   \* 'total_impressions'
        <<"i","m","p","r","e","s","s","i","o","n">>,   \* 'impression'
        <<"v","i","e","w","s">>,   \* 'views'
        <<"t","o","t","a","l","_","v","i","e","w","s">>,   \* 'total_views'
        <<"a","d","_","i","m","p","r","e","s","s","i","o","n","s">>,   \* 'ad_impressions'
        <<"s","e","r","v","e","d","_","i","m","p","r","e","s","s","i","o","n","s">>,   \* 'served_impressions'
        <<"d","e","l","i","v","e","r","e","d","_","i","m","p","r","e","s","s","i","o","n","s">>    \* 'delivered_impressions'
      >>,
    clicks |-> <<
        <<"c","l","i","c","k","s">>,   \* 'clicks'
        <<"t","o","t","a","l","_","c","l","i","c","k","s">>,   \* 'total_clicks'
        <<"c","l","i","c","k">>,   \* 'click'
        <<"l","i","n","k","_","c","l","i","c","k","s">>,   \* 'link_clicks'
        <<"a","d","_","c","l","i","c","k","s">>,   \* 'ad_clicks'
        <<"c","l","i","c","k","_","c","o","u","n","t">>,   \* 'click_count'
        <<"c","l","i","c","k","t","h","r","o","u","g","h","s">>    \* 'clickthroughs'
      >>,
    cost |-> <<
        <<"c","o","s","t">>,   \* 'cost'
        <<"t","o","t","a","l","_","c","o","s","t">>,   \* 'total_cost'
        <<"s","p","e","n","d">>,   \* 'spend'
        <<"b","u","d","g","e","t">>,   \* 'budget'
        <<"i","n","v","e","s","t","m","e","n","t">>,   \* 'investment'
        <<"m","e","d","i","a","_","c","o","s","t">>,   \* 'media_cost'
        <<"a","d","v","e","r","t","i","s","i","n","g","_","c","o","s","t">>,   \* 'advertising_cost'
        <<"c","a","m","p","a","i","g","n","_","c","o","s","t">>,   \* 'campaign_cost'
        <<"t","o","t","a","l","_","s","p","e","n","d">>,   \* 'total_spend'
        <<"a","m","o","u","n","t","_","s","p","e","n","t">>    \* 'amount_spent'
      >>,
    budget |-> <<
        <<"b","u","d","g","e","t">>,   \* 'budget'
        <<"p","l","a","n","n","e","d","_","b","u","d","g","e","t">>,   \* 'planned_budget'
        <<"a","l","l","o","c","a","t","e","d","_","b","u","d","g","e","t">>,   \* 'allocated_budget'
        <<"b","u","d","g","e","t","_","a","l","l","o","c","a","t","i","o","n">>,   \* 'budget_allocation'
        <<"i","n","v","e","s","t","m","e","n","t">>,   \* 'investment'
        <<"s","p","e","n","d","_","t","a","r","g","e","t">>,   \* 'spend_target'
        <<"b","u","d","g","e","t","_","a","m","o","u","n","t">>    \* 'budget_amount'
      >>,
    demographic |-> <<
        <<"d","e","m","o","g","r","a","p","h","i","c">>,   \* 'demographic'
        <<"d","e","m","o">>,   \* 'demo'
        <<"a","g","e","_","g","r","o","u","p">>,   \* 'age_group'
        <<"t","a","r","g","e","t","_","d","e","m","o">>,   \* 'target_demo'
        <<"a","u","d","i","e","n","c","e">>,   \* 'audience'
        <<"a","g","e","_","r","a","n","g","e">>,   \* 'age_range'
        <<"d","e","m","o","_","g","r","o","u","p">>,   \* 'demo_group'
        <<"t","a","r","g","e","t","_","a","u","d","i","e","n","c","e">>,   \* 'target_audience'
        <<"s","e","g","m","e","n","t">>    \* 'segment'
      >>,
    geography |-> <<
        <<"g","e","o","g","r","a","p","h","y">>,   \* 'geography'
        <<"g","e","o">>,   \* 'geo'
        <<"l","o","c","a","t","i","o","n">>,   \* 'location'
        <<"r","e","g","i","o","n">>,   \* 'region'
        <<"m","a","r","k","e","t">>,   \* 'market'
        <<"a","r","e","a">>,   \* 'area'
        <<"t","e","r","r","i","t","o","r","y">>,   \* 'territory'
        <<"g","e","o","g","r","a","p","h","i","c","_","a","r","e","a">>,   \* 'geographic_area'
        <<"l","o","c","a","l","e">>,   \* 'locale'
        <<"c","i","t","y">>,   \* 'city'
        <<"s","t","a","t","e">>,   \* 'state'
        <<"c","o","u","n","t","r","y">>    \* 'country'
      >>,
    date |-> <<
        <<"d","a","t","e">>,   \* 'date'
        <<"t","i","m","e">>,   \* 'time'
        <<"p","e","r","i","o","d">>,   \* 'period'
        <<"w","e","e","k">>,   \* 'week'
        <<"m","o","n","t","h">>,   \* 'month'
        <<"q","u","a","r","t","e","r">>,   \* 'quarter'
        <<"c","a","m","p","a","i","g","n","_","d","a","t","e">>,   \* 'campaign_date'
        <<"f","l","i","g","h","t","_","d","a","t","e">>,   \* 'flight_date'
        <<"r","u","n","_","d","a","t","e">>,   \* 'run_date'
        <<"s","t","a","r","t","_","d","a","t","e">>,   \* 'start_date'
        <<"e","n","d","_","d","a","t","e">>    \* 'end_date'
      >> ]

Fields == DOMAIN COLUMN_MAPPINGS

\* ----------------------------------------------------------- findColumnMatch

\* Variant of the normalization: without toLowerCase
normalizeHeaderCaseSensitive(h) == replaceWhitespaceRuns(trim(toString(h)))

\* h.toString().toLowerCase().trim().replace(/\s+/g, '_')
normalizeHeader(h) == replaceWhitespaceRuns(trim(toLowerCase(toString(h))))

\* headers.map(h => h.toString().toLowerCase().trim().replace(/\s+/g, '_'))
normalizeHeaders(headers) ==
  array([i \in 1..Len(headers) |-> normalizeHeader(headers[i])])

\* possibleName.toLowerCase().trim()
normalizePossible(name) == trim(toLowerCase(name))

\* Variant of headerMatches: equality alone
headerMatchesExactly(header, normalizedPossible) == header = normalizedPossible

\* Variant of headerMatches: without 'alias contains header'
headerMatchesOneWay(header, normalizedPossible) ==
  \/ header = normalizedPossible
  \/ includes(header, normalizedPossible)
  \/ includes(removeChars(header, {"%"}), normalizedPossible)
  \/ includes(removeChars(header, {"-", "_"}),
              removeChars(normalizedPossible, {"-", "_"}))

\* The predicate of normalizedHeaders.findIndex
headerMatches(header, normalizedPossible) ==
  \/ header = normalizedPossible
  \/ includes(header, normalizedPossible)
  \/ includes(normalizedPossible, header)
  \/ includes(removeChars(header, {"%"}), normalizedPossible)
  \/ includes(removeChars(header, {"-", "_"}),
              removeChars(normalizedPossible, {"-", "_"}))

\* Array.prototype.findIndex for the predicate above, 0-based, -1 for none
findIndex(normalizedHeaders, normalizedPossible) ==
  LET hits == {i \in 1..Len(normalizedHeaders) :
                 headerMatches(normalizedHeaders[i], normalizedPossible)}
  IN IF hits = {} THEN 0 - 1
     ELSE (CHOOSE i \in hits : \A j \in hits : i <= j) - 1

\* Variant of matchFrom: the headers scanned in the outer loop, the names in
\* the inner one
matchFromHeaderFirst(headers, normalizedHeaders, possibleNames, k, targetColumn) ==
  LET hits == {i \in 1..Len(normalizedHeaders) :
                 \E n \in k..Len(possibleNames) :
                    headerMatches(normalizedHeaders[i],
                                  normalizePossible(possibleNames[n]))}
  IN IF hits = {}
     THEN [found |-> FALSE, originalName |-> null, index |-> 0 - 1,
           mappedTo |-> targetColumn]
     ELSE [found |-> TRUE,
           originalName |-> headers[CHOOSE i \in hits : \A j \in hits : i <= j],
           index |-> (CHOOSE i \in hits : \A j \in hits : i <= j) - 1,
           mappedTo |-> targetColumn]

\* The for-of loop over possibleNames, from the k-th name on
RECURSIVE matchFrom(_, _, _, _, _)
matchFrom(headers, normalizedHeaders, possibleNames, k, targetColumn) ==
  IF k > Len(possibleNames)
  THEN [found |-> FALSE, originalName |-> null, index |-> 0 - 1,
        mappedTo |-> targetColumn]
  ELSE LET matchIndex ==
             findIndex(normalizedHeaders, normalizePossible(possibleNames[k]))
       IN IF matchIndex # 0 - 1
          THEN [found |-> TRUE, originalName |-> headers[matchIndex + 1],
                index |-> matchIndex, mappedTo |-> targetColumn]
          ELSE matchFrom(headers, normalizedHeaders, possibleNames, k + 1,
                         targetColumn)

\* findColumnMatch(headers, targetColumn); the headers.map throws when a
\* header is null or undefined
findColumnMatch(headers, targetColumn) ==
  IF \E i \in 1..Len(headers) : ~hasToString(headers[i])
  THEN Throw("TypeError")
  ELSE LET normalizedHeaders == normalizeHeaders(headers)
           possibleNames ==
             IF targetColumn \in Fields THEN COLUMN_MAPPINGS[targetColumn]
             ELSE <<>>
       IN Return(matchFrom(headers, normalizedHeaders, possibleNames, 1,
                           targetColumn))

\* --------------------------------------------------------- validateMediaData

Bool(b) == [js |-> "boolean", b |-> b]

\* JavaScript truthiness of a verdict's hasChannelData: a match object is
\* truthy, a boolean is itself
Truthy(x) == IF "js" \in DOMAIN x THEN x.js = "boolean" /\ x.b ELSE TRUE

\* Variant of idealColumns: every field of the catalogue
catalogueColumns ==
  <<"channel", "ctr", "cpm", "reach", "frequency", "impressions", "clicks",
    "cost", "budget", "demographic", "geography", "date">>

idealColumns ==
  <<"channel", "ctr", "cpm", "reach", "frequency", "impressions", "clicks", "cost">>

platform == <<"p","l","a","t","f","o","r","m">>

source == <<"s","o","u","r","c","e">>

\* The verdict of the early return for a table without headers
noHeadersVerdict ==
  [isValid |-> FALSE,
   missingColumns |-> <<>>,
   suggestions |-> [template |-> "No headers found in the CSV file. Please ensure the first row contains column headers."],
   columnMappings |-> [c \in {} |-> null],
   recommendedColumns |-> <<>>]

\* Variant of hasMinimumData: the bar set at three columns
hasMinimumDataOfThree(foundColumns) == Len(foundColumns) >= 3

\* foundColumns.length >= 2
hasMinimumData(foundColumns) == Len(foundColumns) >= 2

\* Variant of dataQuality: 'excellent' only above four columns
dataQualityAboveFour(foundColumns) ==
  IF Len(foundColumns) >= 2
  THEN (IF Len(foundColumns) > 4 THEN "excellent" ELSE "good")
  ELSE "limited"

\* hasMinimumData ? (foundColumns.length >= 4 ? 'excellent' : 'good') : 'limited'
dataQuality(foundColumns) ==
  IF hasMinimumData(foundColumns)
  THEN (IF Len(foundColumns) >= 4 THEN "excellent" ELSE "good")
  ELSE "limited"

\* foundMappings.channel || data.headers.some(h => ...'platform' || ...'source')
hasChannelData(headers, foundMappings) ==
  IF "channel" \in DOMAIN foundMappings
  THEN foundMappings["channel"]
  ELSE Bool(\E i \in 1..Len(headers) :
              \/ includes(toLowerCase(toString(headers[i])), platform)
              \/ includes(toLowerCase(toString(headers[i])), source))

\* The verdict, from the columns found and their matches
verdictOf(data, foundColumns, foundMappings) ==
  [isValid |-> hasMinimumData(foundColumns),
   missingColumns |->
     SelectSeq(idealColumns,
               LAMBDA c : \A i \in 1..Len(foundColumns) : foundColumns[i] # c),
   foundColumns |-> foundColumns,
   columnMappings |-> foundMappings,
   suggestions |->
     IF hasMinimumData(foundColumns)
     THEN [template |-> "Great! Found ${n} relevant columns. The AI can analyze this data.",
           n |-> Len(foundColumns)]
     ELSE [template |-> "Found ${n} relevant columns. For best results, include columns for channel, metrics like CTR/CPM, and performance data.",
           n |-> Len(foundColumns)],
   hasChannelData |-> hasChannelData(data.headers, foundMappings),
   recommendedColumns |-> foundColumns,
   dataQuality |-> dataQuality(foundColumns)]

\* findColumnMatch(data.headers, column) for each of idealColumns, in order
matchColumns(headers) ==
  array([i \in 1..Len(idealColumns) |->
           findColumnMatch(headers, idealColumns[i])])

\* Variant of the forEach: foundMappings[column] = match assigned before the
\* test of match.found, so that every ideal column has an entry
mapColumnsKeepingAll(data, match) ==
  IF match[1].kind = "throw"
  THEN match[1]
  ELSE Return(verdictOf(
         data,
         SelectSeq(idealColumns,
                   LAMBDA c : \E i \in 1..Len(idealColumns) :
                                idealColumns[i] = c /\ match[i].value.found),
         [c \in {idealColumns[i] : i \in 1..Len(idealColumns)} |->
            match[CHOOSE i \in 1..Len(idealColumns) : idealColumns[i] = c].value]))

\* The forEach over idealColumns, from the matches in that order: a column
\* whose match is found goes to foundColumns and foundMappings, the others
\* to missingColumns; the first call throws if any does
mapColumns(data, match) ==
  IF match[1].kind = "throw"
  THEN match[1]
  ELSE Return(verdictOf(
         data,
         SelectSeq(idealColumns,
                   LAMBDA c : \E i \in 1..Len(idealColumns) :
                                idealColumns[i] = c /\ match[i].value.found),
         [c \in {idealColumns[i] : i \in {j \in 1..Len(idealColumns) :
                                            match[j].value.found}} |->
            match[CHOOSE i \in 1..Len(idealColumns) : idealColumns[i] = c].value]))

\* Variant of validateMediaData: data.headers.length read without the
\* !data.headers test
validateMediaDataLengthOnly(data) ==
  IF "headers" \notin DOMAIN data
  THEN Throw("TypeError")
  ELSE IF Len(data.headers) = 0
  THEN Return(noHeadersVerdict)
  ELSE mapColumns(data, matchColumns(data.headers))

validateMediaData(data) ==
  IF "headers" \notin DOMAIN data \/ Len(data.headers) = 0
  THEN Return(noHeadersVerdict)
  ELSE mapColumns(data, matchColumns(data.headers))

\* ------------------------------------------------------------------ numbers

DigitSet == {Digits[i] : i \in 1..10}

digitValue(c) == (CHOOSE i \in 1..10 : Digits[i] = c) - 1

\* The number of leading decimal digits of s
RECURSIVE leadingDigits(_)
leadingDigits(s) ==
  IF s = <<>> \/ Head(s) \notin DigitSet THEN 0 ELSE 1 + leadingDigits(Tail(s))

RECURSIVE digitsToNat(_)
digitsToNat(ds) ==
  IF ds = <<>> THEN 0
  ELSE digitsToNat(SubSeq(ds, 1, Len(ds) - 1)) * 10 + digitValue(ds[Len(ds)])

\* The text after an optional sign
unsigned(t) == IF t # <<>> /\ Head(t) \in {"-", "+"} THEN Tail(t) ELSE t

\* The magnitude with the sign of the text t
withSign(t, magnitude) ==
  IF magnitude = NaN THEN NaN
  ELSE IF t # <<>> /\ Head(t) = "-" THEN Num(0 - magnitude.v)
  ELSE magnitude

\* The first two digits of a fraction, in hundredths
hundredths(fracText, nFrac) ==
  IF nFrac = 0 THEN 0
  ELSE IF nFrac = 1 THEN digitValue(fracText[1]) * 10
  ELSE digitsToNat(SubSeq(fracText, 1, 2))

fraction(fracText) == hundredths(fracText, leadingDigits(fracText))

\* The text after the decimal point that follows the whole part, if any
afterPoint(rest) ==
  IF rest # <<>> /\ Head(rest) = "." THEN Tail(rest) ELSE <<>>

floatMagnitude(u, nWhole, fracText) ==
  IF nWhole = 0 /\ leadingDigits(fracText) = 0 THEN NaN
  ELSE Num(digitsToNat(SubSeq(u, 1, nWhole)) * 100 + fraction(fracText))

floatOfUnsigned(u, nWhole) ==
  floatMagnitude(u, nWhole, afterPoint(SubSeq(u, nWhole + 1, Len(u))))

intOfUnsigned(u, nWhole) ==
  IF nWhole = 0 THEN NaN ELSE Num(digitsToNat(SubSeq(u, 1, nWhole)) * 100)

signedFloat(t, u) == withSign(t, floatOfUnsigned(u, leadingDigits(u)))

signedInt(t, u) == withSign(t, intOfUnsigned(u, leadingDigits(u)))

floatOfTrimmed(t) == signedFloat(t, unsigned(t))

intOfTrimmed(t) == signedInt(t, unsigned(t))

\* parseFloat of a string: leading whitespace, optional sign, digits,
\* optional fraction; what follows the number is ignored; NaN when no digit
\* is read.  The value is kept to the hundredth (the cells of the model carry
\* at most two decimals).
parseFloatString(s) == floatOfTrimmed(trimStart(s))

\* parseInt of a string: leading whitespace, optional sign, digits; NaN when
\* no digit is read
parseIntString(s) == intOfTrimmed(trimStart(s))

\* parseFloat(cell)
parseFloat(cell) ==
  CASE cell.js = "number" -> cell
    [] cell.js = "string" -> parseFloatString(cell.s)
    [] OTHER -> NaN

\* parseInt(cell): the cell is turned into text first
parseInt(cell) ==
  IF cell.js \in {"number", "string"}
  THEN parseIntString(IF cell.js = "number" THEN numberToString(cell.v)
                      ELSE cell.s)
  ELSE NaN

\* Variant of the filter: val >= 0, which keeps a zero
isNonNegativeNumber(val) == val # NaN /\ val.v >= 0

\* !isNaN(val) && val > 0
isPositiveNumber(val) == val # NaN /\ val.v > 0

RECURSIVE sum(_)
sum(values) == IF values = <<>> THEN 0 ELSE Head(values) + sum(Tail(values))

max(values) == CHOOSE v \in {values[i] : i \in 1..Len(values)} :
                 \A i \in 1..Len(values) : values[i] <= v

min(values) == CHOOSE v \in {values[i] : i \in 1..Len(values)} :
                 \A i \in 1..Len(values) : v <= values[i]

\* a / b rounded to the nearest integer, halves up (a >= 0, b > 0)
roundDiv(a, b) == (2 * a + b) \div (2 * b)

twoDigits(n) == <<Digits[(n \div 10) + 1], Digits[(n % 10) + 1]>>

\* (total / count).toFixed(2) of non-negative hundredths
toFixed2(total, count) ==
  LET q == roundDiv(total, count)
  IN Str(natToString(q \div 100) \o <<".">> \o twoDigits(q % 100))

\* (total / count).toFixed(1)
toFixed1(total, count) ==
  LET q == roundDiv(total, count * 10)
  IN Str(natToString(q \div 10) \o <<".", Digits[(q % 10) + 1]>>)

\* Math.round(total / count), a whole number
mathRound(total, count) == Num(roundDiv(total, count * 100) * 100)

\* ----------------------------------------------------- calculateBasicMetrics

Arr(cells) == [js |-> "array", a |-> cells]

\* row[index], undefined beyond the end of a short row
cellAt(row, index) ==
  IF index + 1 \in 1..Len(row.a) THEN row.a[index + 1] ELSE undefined

\* The numbers (in hundredths) of the values kept by
\* filter(val => !isNaN(val) && val > 0)
positive(parsed) ==
  array([i \in 1..Len(SelectSeq(parsed, isPositiveNumber)) |->
           SelectSeq(parsed, isPositiveNumber)[i].v])

\* rows.map(row => parseFloat(row[index])).filter(...)
positiveFloats(rows, index) ==
  positive(array([i \in 1..Len(rows) |-> parseFloat(cellAt(rows[i], index))]))

\* rows.map(row => parseInt(row[index])).filter(...)
positiveInts(rows, index) ==
  positive(array([i \in 1..Len(rows) |-> parseInt(cellAt(rows[i], index))]))

noProperties == [k \in {} |-> null]

\* if (ctrValues.length > 0) { metrics.avgCTR = ...; maxCTR; minCTR }
ctrStatistics(ctrValues) ==
  IF Len(ctrValues) > 0
  THEN [avgCTR |-> toFixed2(sum(ctrValues), Len(ctrValues)),
        maxCTR |-> toFixed2(max(ctrValues), 1),
        minCTR |-> toFixed2(min(ctrValues), 1)]
  ELSE noProperties

ctrMetrics(rows, mappings) ==
  IF "ctr" \in DOMAIN mappings
  THEN ctrStatistics(positiveFloats(rows, mappings["ctr"].index))
  ELSE noProperties

\* Variant of the cpm statistics: the average alone
cpmStatisticsAverageOnly(cpmValues) ==
  IF Len(cpmValues) > 0
  THEN [avgCPM |-> toFixed2(sum(cpmValues), Len(cpmValues))]
  ELSE noProperties

cpmStatistics(cpmValues) ==
  IF Len(cpmValues) > 0
  THEN [avgCPM |-> toFixed2(sum(cpmValues), Len(cpmValues)),
        maxCPM |-> toFixed2(max(cpmValues), 1),
        minCPM |-> toFixed2(min(cpmValues), 1)]
  ELSE noProperties

cpmMetrics(rows, mappings) ==
  IF "cpm" \in DOMAIN mappings
  THEN cpmStatistics(positiveFloats(rows, mappings["cpm"].index))
  ELSE noProperties

reachStatistics(reachValues) ==
  IF Len(reachValues) > 0
  THEN [totalReach |-> Num(sum(reachValues)),
        avgReach |-> mathRound(sum(reachValues), Len(reachValues))]
  ELSE noProperties

reachMetrics(rows, mappings) ==
  IF "reach" \in DOMAIN mappings
  THEN reachStatistics(positiveInts(rows, mappings["reach"].index))
  ELSE noProperties

frequencyStatistics(freqValues) ==
  IF Len(freqValues) > 0
  THEN [avgFrequency |-> toFixed1(sum(freqValues), Len(freqValues))]
  ELSE noProperties

frequencyMetrics(rows, mappings) ==
  IF "frequency" \in DOMAIN mappings
  THEN frequencyStatistics(
         positiveFloats(rows, mappings["frequency"].index))
  ELSE noProperties

costStatistics(costValues) ==
  IF Len(costValues) > 0
  THEN [totalCost |-> Num(sum(costValues)),
        avgCost |-> toFixed2(sum(costValues), Len(costValues))]
  ELSE noProperties

costMetrics(rows, mappings) ==
  IF "cost" \in DOMAIN mappings
  THEN costStatistics(positiveFloats(rows, mappings["cost"].index))
  ELSE noProperties

numericColumns == {"ctr", "cpm", "reach", "frequency", "cost"}

\* Variant of the initial metrics: the header line counted among the rows
initialMetricsWithHeaderRow(data, validation) ==
  [totalCampaigns |-> Num((Len(data.rows) + 1) * 100),
   totalRows |-> Num((Len(data.rows) + 1) * 100),
   columnsFound |-> Get(validation, "foundColumns"),
   dataQuality |-> Get(validation, "dataQuality")]

\* let totalRows = data.rows.length; let metrics = { ... }
initialMetrics(data, validation) ==
  [totalCampaigns |-> Num(Len(data.rows) * 100),
   totalRows |-> Num(Len(data.rows) * 100),
   columnsFound |-> Get(validation, "foundColumns"),
   dataQuality |-> Get(validation, "dataQuality")]

\* parseFloat(row[index]) and parseInt(row[index]) throw a TypeError when the
\* row is null (row[index]) and when the cell is a Symbol (its conversion to
\* a string)
throwsOnRow(row, index) ==
  row.js # "array" \/ cellAt(row, index).js = "symbol"

\* The try block: it throws in the first numeric column that is mapped and
\* has a row on which the parse throws; the columns before it were computed,
\* the columns after it are not reached
tryBlock(data, validation, mappings) ==
  IF \E c \in numericColumns \cap DOMAIN mappings :
        \E i \in 1..Len(data.rows) :
           throwsOnRow(data.rows[i], mappings[c].index)
  THEN Throw("TypeError")
  ELSE Return(initialMetrics(data, validation)
              @@ ctrMetrics(data.rows, mappings)
              @@ cpmMetrics(data.rows, mappings)
              @@ reachMetrics(data.rows, mappings)
              @@ frequencyMetrics(data.rows, mappings)
              @@ costMetrics(data.rows, mappings))

\* The catch block: it reads totalRows, which the try block declared with
\* let and which is out of scope here, so building the object throws
catchBlock(data, caught) == Throw("ReferenceError")

\* try { ... } catch (error) { ... }
tryCatch(data, tried) ==
  IF tried.kind = "throw" THEN catchBlock(data, tried.error) ELSE tried

\* The body after const validation = validateMediaData(data), which is
\* called outside the try block
metricsOf(data, validation) ==
  IF validation.kind = "throw" THEN validation
  ELSE tryCatch(data, tryBlock(data, validation.value,
                               validation.value.columnMappings))

\* Variant of calculateBasicMetrics: without the rows.length === 0 test
calculateBasicMetricsOfNoRows(data) ==
  IF "rows" \notin DOMAIN data
  THEN Return(null)
  ELSE metricsOf(data, validateMediaData(data))

calculateBasicMetrics(data) ==
  IF "rows" \notin DOMAIN data \/ Len(data.rows) = 0
  THEN Return(null)
  ELSE metricsOf(data, validateMediaData(data))

\* ------------------------------------------------------------ getDataSummary

\* The object getDataSummary returns, from the results of its two calls;
\* validation.foundColumns.length and data.rows.length throw when the
\* property is absent
summaryOf(data, validation, metrics) ==
  IF validation.kind = "throw" THEN validation
  ELSE IF metrics.kind = "throw" THEN metrics
  ELSE IF "foundColumns" \notin DOMAIN validation.value
       THEN Throw("TypeError")
  ELSE IF "rows" \notin DOMAIN data
       THEN Throw("TypeError")
  ELSE Return(
    [isReady |-> validation.value.isValid,
     quality |-> Get(validation.value, "dataQuality"),
     summary |-> [template |-> "Found ${n} relevant columns in ${m} rows of data.",
                  n |-> Len(validation.value.foundColumns),
                  m |-> Len(data.rows)],
     details |-> [foundColumns |-> validation.value.foundColumns,
                  mappings |-> validation.value.columnMappings,
                  metrics |-> metrics.value,
                  suggestions |-> validation.value.suggestions]])

getDataSummary(data) ==
  summaryOf(data, validateMediaData(data), calculateBasicMetrics(data))

\* ---------------------------------------------------------- prepareDataForAI

SampleSize == 10

\* Variant of slice: the whole array
sliceAll(rows, n) == rows

\* rows.slice(0, 10)
slice(rows, n) == SubSeq(rows, 1, IF Len(rows) < n THEN Len(rows) ELSE n)

\* The object prepareDataForAI returns, from the results of its two calls;
\* data.rows.slice throws when rows is absent
payloadOf(data, validation, basicMetrics) ==
  IF validation.kind = "throw" THEN validation
  ELSE IF "rows" \notin DOMAIN data THEN Throw("TypeError")
  ELSE IF basicMetrics.kind = "throw" THEN basicMetrics
  ELSE Return(
    [originalHeaders |-> IF "headers" \in DOMAIN data
                         THEN Arr(data.headers) ELSE undefined,
     mappedColumns |-> validation.value.columnMappings,
     foundColumns |-> Get(validation.value, "foundColumns"),
     dataQuality |-> Get(validation.value, "dataQuality"),
     sampleRows |-> slice(data.rows, SampleSize),
     totalRows |-> Num(Len(data.rows) * 100),
     basicMetrics |-> basicMetrics.value,
     hasChannelData |-> Get(validation.value, "hasChannelData")])

prepareDataForAI(data) ==
  payloadOf(data, validateMediaData(data), calculateBasicMetrics(data))

\* ------------------------------------------- ClaudeApiService.analyzeMediaData

PromptSampleSize == 10

\* The values analyzeMediaData writes into its prompt, each through
\* JSON.stringify or as a number; uploadedData.rows.slice throws when rows is
\* absent
analyzeMediaDataPrompt(data) ==
  IF "rows" \notin DOMAIN data THEN Throw("TypeError")
  ELSE Return(
    [headers |-> IF "headers" \in DOMAIN data
                 THEN Arr(data.headers) ELSE undefined,
     sampleRows |-> slice(data.rows, PromptSampleSize),
     totalRows |-> Num(Len(data.rows) * 100)])

\* ------------------------------------------------------------ processCSVFile

\* The complete callback: results.data is the parsed file, a sequence of rows
processCSVFile(results) ==
  [headers |-> IF Len(results) > 0 THEN results[1].a ELSE <<>>,
   rows |-> SubSeq(results, 2, Len(results))]

\* ------------------------------------------------------------------- inputs

\* Header cells as the parser hands them over (dynamicTyping: a numeric
\* header is a number, an empty header is null)
hPlatform == Str(<<"P","l","a","t","f","o","r","m">>)   \* 'Platform'

hClickThroughRate == Str(<<"C","l","i","c","k","-","T","h","r","o","u","g","h"," ","R","a","t","e">>)   \* 'Click-Through Rate'

hCpmDollar == Str(<<"C","P","M"," ","(","$",")">>)   \* 'CPM ($)'

hTotalReach == Str(<<"T","o","t","a","l"," ","R","e","a","c","h">>)   \* 'Total Reach'

hFoo == Str(<<"f","o","o">>)   \* 'foo'

hDate == Str(<<"d","a","t","e">>)   \* 'date'

hRegion == Str(<<"R","e","g","i","o","n">>)   \* 'Region'

hImpressionCost == Str(<<"i","m","p","r","e","s","s","i","o","n","_","c","o","s","t">>)   \* 'impression_cost'

hCpmCost == Str(<<"c","p","m","_","c","o","s","t">>)   \* 'cpm_cost'

hBlank == Str(<<" "," ">>)   \* '  '

hClickPercentRate == Str(<<"C","l","i","c","k"," ","%","R","a","t","e">>)   \* 'Click %Rate'

hCt == Str(<<"c","t">>)   \* 'ct'

hFreq == Str(<<"F","r","e","q">>)   \* 'Freq'

hSpend == Str(<<"S","p","e","n","d">>)   \* 'Spend'

hBar == Str(<<"b","a","r">>)   \* 'bar'

hTrafficSource == Str(<<"T","r","a","f","f","i","c"," ","S","o","u","r","c","e">>)   \* 'Traffic Source'

hYear == Num(202400)   \* 2024

\* Data cells
cFacebook == Str(<<"F","a","c","e","b","o","o","k">>)   \* 'Facebook'

cGoogle == Str(<<"G","o","o","g","l","e">>)   \* 'Google'

cAbc == Str(<<"a","b","c">>)   \* 'abc'

cFivePercent == Str(<<"5","%">>)   \* '5%'

cTv == Str(<<"T","V">>)   \* 'TV'

\* A cell that cannot be converted to a string: Symbol()
cSymbol == [js |-> "symbol"]

\* A row a caller can pass whose third cell is a Symbol
SymbolRow == Arr(<<cFacebook, Num(230), cSymbol, Num(4500000)>>)

HeaderPool ==
  {hClickThroughRate, hImpressionCost, hCpmCost, hBlank, hClickPercentRate,
   hCt, hYear, null}

MaxHeaders == 2

MaxRows == 2

SeqsUpTo(S, n) == UNION {[1..k -> S] : k \in 0..n}

\* Header rows of the parsed file: one to MaxHeaders cells of the pool, and
\* two rows of headers outside the ideal columns
HeaderRows ==
  (SeqsUpTo(HeaderPool, MaxHeaders) \ {<<>>})
  \cup {<<hDate, hRegion>>, <<hFoo>>, <<hTrafficSource>>}

\* Headers whose columns the data rows below are laid out for
ScenarioHeaders ==
  {<<hPlatform, hClickThroughRate, hCpmDollar, hTotalReach>>,
   <<hFreq, hSpend, hFoo>>,
   <<hFoo, hBar>>}

RowPool ==
  {Arr(<<cFacebook, Num(230), Num(1550), Num(4500000)>>),
   Arr(<<cGoogle, Num(0 - 300), cAbc, Num(0)>>),
   Arr(<<Num(325), cFivePercent, null, Num(470)>>),
   Arr(<<cTv>>)}

RowSeqs == SeqsUpTo(RowPool, MaxRows)

\* A file longer than the sample: n numbered rows under headers that match
\* nothing
MaxLongRows == 12

LongRows(n) == [i \in 1..n |-> Arr(<<cTv, Num(i * 100)>>)]

\* results.data of the parser: nothing (an empty file), or a header row
\* followed by data rows
ParseResults ==
  {<<>>}
  \cup {<<Arr(h), Arr(<<cFacebook, Num(230)>>)>> : h \in HeaderRows}
  \cup {<<Arr(h)>> \o r : h \in ScenarioHeaders, r \in RowSeqs}
  \cup {<<Arr(<<hFoo, hBar>>)>> \o LongRows(n) : n \in 0..MaxLongRows}

\* Tables a caller of the exported functions can pass that processCSVFile
\* does not produce: headers absent or empty with rows, rows absent, a row
\* that is null, a cell that is a Symbol
CallerTables ==
  {[rows |-> r] : r \in RowSeqs}
  \cup {[headers |-> <<>>, rows |-> r] : r \in RowSeqs}
  \cup {[headers |-> h] : h \in ScenarioHeaders}
  \cup {[headers |-> h, rows |-> r \o <<null>>] :
          h \in ScenarioHeaders \cup {<<hFoo, null>>},
          r \in SeqsUpTo(RowPool, 1)}
  \cup {[headers |-> h, rows |-> r \o <<SymbolRow>>] :
          h \in ScenarioHeaders, r \in SeqsUpTo(RowPool, 1)}

Tables == {processCSVFile(d) : d \in ParseResults} \cup CallerTables

\* ---------------------------------------------------------- ClaudeApiService

\* What the service's HTTP endpoint does with one request: fetch rejects (the
\* network call fails), or resolves with a status that is not OK, or with a
\* body whose content[0].text is the given text.  A text is a JSON object, the
\* JSON literal null, or not JSON, and may be wrapped in a ```json fence
Texts ==
  {[fenced |-> f, body |-> b] :
     f \in BOOLEAN, b \in {"object", "null", "malformed"}}

Replies ==
  {[fetch |-> "rejects"], [fetch |-> "resolves", ok |-> FALSE]}
  \cup {[fetch |-> "resolves", ok |-> TRUE, text |-> t] : t \in Texts}

\* responseText.replace(/```json\n?/g, "").replace(/```\n?/g, "").trim()
stripFences(text) == [text EXCEPT !.fenced = FALSE]

\* makeRequest: the response text, or the error thrown, logged and rethrown
makeRequest(reply) ==
  IF reply.fetch = "rejects"
  THEN Throw([message |-> "Failed to fetch"])
  ELSE IF ~reply.ok
  THEN Throw([message |-> "API request failed: ${response.status} ${response.statusText}"])
  ELSE Return(stripFences(reply.text))

\* JSON.parse(response): answer is the object the text spells out
JSONparse(text, answer) ==
  IF text.fenced \/ text.body = "malformed"
  THEN Throw([message |-> "Unexpected token"])
  ELSE IF text.body = "null" THEN Return(null)
  ELSE Return(answer)

\* The rest of analyzeMediaData and generateRecommendations after the request
\* is answered: return JSON.parse(response)
parseResponse(response, answer) ==
  IF response.kind = "throw" THEN response
  ELSE JSONparse(response.value, answer)

\* ClaudeApiService.analyzeMediaData(uploadedData), its request answered by
\* reply: the object returned is an analysis of what the prompt showed, and
\* the service's answers to two requests are two objects
analyzeMediaData(data, request, reply) ==
  parseResponse(makeRequest(reply),
                [analysisOf |-> analyzeMediaDataPrompt(data).value,
                 answerTo |-> request])

\* ClaudeApiService.generateRecommendations(analysisData), its request
\* answered by reply: the prompt shows JSON.stringify(analysisData)
generateRecommendations(analysisData, request, reply) ==
  parseResponse(makeRequest(reply),
                [recommendedFrom |-> analysisData, answerTo |-> request])

\* ----------------------------------------------------------- MediaPlannerApp

\* A user-facing message
Message(text) == [template |-> text]

\* str.endsWith(suffix)
endsWith(str, suffix) ==
  /\ Len(str) >= Len(suffix)
  /\ SubSeq(str, Len(str) - Len(suffix) + 1, Len(str)) = suffix

dotCsv == <<".", "c", "s", "v">>

\* The test of handleFileUpload: file.type !== 'text/csv' &&
\* !file.name.endsWith('.csv') throws
isCsvFile(file) == file.type = "text/csv" \/ endsWith(file.name, dotCsv)

\* error.message || 'Error processing file. Please try again.'
uploadErrorMessage(e) ==
  IF e.message = "" THEN Message("Error processing file. Please try again.")
  ELSE Message(e.message)

\* Variant of the catch block of analyzeMediaData: the failure is swallowed
\* and no message is set
noAnalysisErrorMessage(e) == null

\* `Analysis failed: ${error.message}. Please check your data format and try again.`
analysisErrorMessage(e) ==
  [template |-> "Analysis failed: ${message}. Please check your data format and try again.",
   message |-> e.message]

\* The try block of handleFileUpload after the file is parsed: the table and
\* its verdict, or what validateMediaData throws
validated(processedData, validation) ==
  IF validation.kind = "throw"
  THEN Throw([message |-> validation.error])
  ELSE Return([processedData |-> processedData, validation |-> validation.value])

\* await processCSVFile(file) and validateMediaData(processedData): the parser
\* calls complete with results.data, or error with an error object
processed(file) ==
  IF file.parse = "error" THEN Throw(file.error)
  ELSE validated(processCSVFile(file.data),
                 validateMediaData(processCSVFile(file.data)))

\* Files the user can choose
campaignCsv == <<"c", "a", "m", "p", "a", "i", "g", "n", ".", "c", "s", "v">>

notesCsv == <<"n", "o", "t", "e", "s", ".", "c", "s", "v">>

planPdf == <<"p", "l", "a", "n", ".", "p", "d", "f">>

FirstRow == Arr(<<cFacebook, Num(230), Num(1550), Num(4500000)>>)

\* A CSV file whose parse completes with the given rows
CsvFile(name, type, data) ==
  [name |-> name, type |-> type, parse |-> "complete", data |-> data]

Files ==
  {CsvFile(campaignCsv, "text/csv",
           <<Arr(<<hPlatform, hClickThroughRate, hCpmDollar, hTotalReach>>), FirstRow>>),
   CsvFile(notesCsv, "", <<Arr(<<hTrafficSource>>), FirstRow>>),
   CsvFile(notesCsv, "text/csv", <<>>),
   CsvFile(notesCsv, "text/csv", <<Arr(<<hFoo, null>>), FirstRow>>),
   CsvFile(planPdf, "application/pdf", <<Arr(<<hPlatform, hClickThroughRate>>)>>),
   [name |-> campaignCsv, type |-> "text/csv", parse |-> "error",
    error |-> [message |-> ""]]}

Tabs == {"upload", "analysis", "recommendations"}

\* The files chosen and the runs started in one behaviour, together
MaxGestures == 3

\* The component after its first render: the initial values of useState
Mounted ==
  /\ uploadedData = null
  /\ analysisResults = null
  /\ recommendations = null
  /\ isAnalyzing = FALSE
  /\ analysisProgress = ""
  /\ activeTab = "upload"
  /\ error = null
  /\ validationResult = null
  /\ uploads = {}
  /\ runs = {}
  /\ timers = 0
  /\ started = 0
  /\ chosen = 0
  /\ requests = <<>>

\* ------------------------------------------------------------ specification

\* One table, and one call of one function on it in each behaviour: the
\* functions keep no state between calls
Init ==
  /\ table \in Tables
  /\ out = [op |-> "none"]
  /\ Mounted

FindColumnMatch(targetColumn) ==
  /\ out.op = "none"
  /\ "headers" \in DOMAIN table
  /\ out' = [op |-> "findColumnMatch", targetColumn |-> targetColumn,
             result |-> findColumnMatch(table.headers, targetColumn)]
  /\ UNCHANGED <<table, appVars>>

ValidateMediaData ==
  /\ out.op = "none"
  /\ out' = [op |-> "validateMediaData", result |-> validateMediaData(table)]
  /\ UNCHANGED <<table, appVars>>

CalculateBasicMetrics ==
  /\ out.op = "none"
  /\ out' = [op |-> "calculateBasicMetrics",
             result |-> calculateBasicMetrics(table)]
  /\ UNCHANGED <<table, appVars>>

GetDataSummary ==
  /\ out.op = "none"
  /\ out' = [op |-> "getDataSummary", result |-> getDataSummary(table)]
  /\ UNCHANGED <<table, appVars>>

PrepareDataForAI ==
  /\ out.op = "none"
  /\ out' = [op |-> "prepareDataForAI", result |-> prepareDataForAI(table)]
  /\ UNCHANGED <<table, appVars>>

\* The prompt of ClaudeApiService.analyzeMediaData, built before the request
AnalyzeMediaDataPrompt ==
  /\ out.op = "none"
  /\ out' = [op |-> "analyzeMediaData", result |-> analyzeMediaDataPrompt(table)]
  /\ UNCHANGED <<table, appVars>>

Next ==
  \/ \E targetColumn \in Fields \cup {"unknown"} : FindColumnMatch(targetColumn)
  \/ ValidateMediaData
  \/ CalculateBasicMetrics
  \/ GetDataSummary
  \/ PrepareDataForAI
  \/ AnalyzeMediaDataPrompt

Spec == Init /\ [][Next]_vars

\* ------------------------------------------------- the component's handlers

\* The component alone: the functions above are called by its handlers
AppInit ==
  /\ table = processCSVFile(<<>>)
  /\ out = [op |-> "none"]
  /\ Mounted

\* handleFileUpload up to await processCSVFile(file), on the change event of
\* the file input of the upload tab: the error and the verdict are cleared; a
\* file that is not CSV throws, and the catch block sets the error
ChooseFile(file) ==
  /\ activeTab = "upload"
  /\ chosen + started < MaxGestures
  /\ chosen' = chosen + 1
  /\ validationResult' = null
  /\ IF isCsvFile(file)
     THEN /\ error' = null
          /\ uploads' = uploads \cup {[id |-> chosen + 1, file |-> file]}
     ELSE /\ error' = uploadErrorMessage(
                        [message |-> "Please upload a CSV file containing your media campaign data."])
          /\ UNCHANGED uploads
  /\ UNCHANGED <<table, out, uploadedData, analysisResults, recommendations,
                 isAnalyzing, analysisProgress, activeTab, runs, timers,
                 started, requests>>

\* The rest of handleFileUpload, given what the parse and the validation
\* came to: the table and its verdict are stored, and the suggestions become
\* the error when the verdict is not valid; a rejection or an exception sets
\* the error only
FileProcessedAs(upload, result) ==
  /\ uploads' = uploads \ {upload}
  /\ IF result.kind = "return"
     THEN /\ uploadedData' = result.value.processedData
          /\ validationResult' = result.value.validation
          /\ error' = IF ~result.value.validation.isValid
                      THEN result.value.validation.suggestions
                      ELSE error
     ELSE /\ error' = uploadErrorMessage(result.error)
          /\ UNCHANGED <<uploadedData, validationResult>>
  /\ UNCHANGED <<table, out, analysisResults, recommendations, isAnalyzing,
                 analysisProgress, activeTab, runs, timers, started, chosen,
                 requests>>

\* What each file comes to, computed once
processedFiles == {<<file, processed(file)>> : file \in Files}

FileProcessed(upload) ==
  /\ upload \in uploads
  /\ \E p \in processedFiles :
       p[1] = upload.file /\ FileProcessedAs(upload, p[2])

\* Variant of the Analyze button: without the disabled attribute
analyzeNeverDisabled == FALSE

\* disabled={isAnalyzing} of the Analyze button
analyzeDisabled == isAnalyzing

\* analyzeMediaData up to await claudeApi.analyzeMediaData(uploadedData), on
\* a click of the Analyze button, which the upload tab shows once
\* uploadedData is set
StartAnalysis ==
  /\ activeTab = "upload"
  /\ uploadedData # null
  /\ ~analyzeDisabled
  /\ chosen + started < MaxGestures
  /\ started' = started + 1
  /\ isAnalyzing' = TRUE
  /\ activeTab' = "analysis"
  /\ error' = null
  /\ analysisProgress' = "Analyzing campaign performance and channel metrics..."
  /\ runs' = runs \cup {[id |-> started + 1, step |-> "analysis",
                         data |-> uploadedData, analysisData |-> undefined]}
  /\ requests' = Append(requests, [run |-> started + 1, step |-> "analysis"])
  /\ UNCHANGED <<table, out, uploadedData, analysisResults, recommendations,
                 validationResult, uploads, timers, chosen>>

\* Variant of the catch block of analyzeMediaData: a failure clears both
\* results
AnalysisFailedClearingResults(run, e) ==
  /\ error' = analysisErrorMessage(e)
  /\ analysisProgress' = ""
  /\ isAnalyzing' = FALSE
  /\ runs' = runs \ {run}
  /\ analysisResults' = null
  /\ recommendations' = null

\* The catch and finally blocks of analyzeMediaData: the error and the
\* progress are set, the results are left as they are
AnalysisFailed(run, e) ==
  /\ error' = analysisErrorMessage(e)
  /\ analysisProgress' = ""
  /\ isAnalyzing' = FALSE
  /\ runs' = runs \ {run}
  /\ UNCHANGED <<analysisResults, recommendations>>

\* Variant of requestsAfterAnalysis: a failed analysis request is sent again
requestsWithRetry(run, outcome) ==
  IF outcome = "return"
  THEN <<[run |-> run.id, step |-> "recommendations"]>>
  ELSE <<[run |-> run.id, step |-> "analysis"]>>

\* The requests a run sends once its analysis request is answered
requestsAfterAnalysis(run, outcome) ==
  IF outcome = "return"
  THEN <<[run |-> run.id, step |-> "recommendations"]>>
  ELSE <<>>

\* analyzeMediaData from the first await to the second, given what
\* claudeApi.analyzeMediaData came to
AnalysisAnsweredAs(run, reply, analysisData) ==
  /\ IF analysisData.kind = "return"
     THEN /\ analysisResults' = analysisData.value
          /\ analysisProgress' = "Generating strategic recommendations..."
          /\ runs' = (runs \ {run})
                     \cup {[run EXCEPT !.step = "recommendations",
                                       !.analysisData = analysisData.value]}
          /\ UNCHANGED <<error, isAnalyzing, recommendations>>
     ELSE AnalysisFailed(run, analysisData.error)
  /\ requests' = requests \o requestsAfterAnalysis(run, analysisData.kind)
  /\ UNCHANGED <<table, out, uploadedData, activeTab, validationResult,
                 uploads, timers, started, chosen>>

AnalysisAnswered(run, reply) ==
  /\ run \in runs
  /\ run.step = "analysis"
  /\ AnalysisAnsweredAs(run, reply, analyzeMediaData(run.data, run.id, reply))

\* analyzeMediaData from the second await to its end, given what
\* claudeApi.generateRecommendations came to; setTimeout leaves a callback
\* pending
RecommendationsAnsweredAs(run, reply, recommendationsData) ==
  /\ IF recommendationsData.kind = "return"
     THEN /\ recommendations' = recommendationsData.value
          /\ analysisProgress' = "Analysis complete!"
          /\ timers' = timers + 1
          /\ isAnalyzing' = FALSE
          /\ runs' = runs \ {run}
          /\ UNCHANGED <<error, analysisResults>>
     ELSE /\ AnalysisFailed(run, recommendationsData.error)
          /\ UNCHANGED timers
  /\ UNCHANGED <<table, out, uploadedData, activeTab, validationResult,
                 uploads, started, chosen, requests>>

RecommendationsAnswered(run, reply) ==
  /\ run \in runs
  /\ run.step = "recommendations"
  /\ RecommendationsAnsweredAs(run, reply,
                               generateRecommendations(run.analysisData, run.id,
                                                       reply))

\* The callback of setTimeout(() => setAnalysisProgress(''), 2000)
TimerFires ==
  /\ timers > 0
  /\ timers' = timers - 1
  /\ analysisProgress' = ""
  /\ UNCHANGED <<table, out, uploadedData, analysisResults, recommendations,
                 isAnalyzing, activeTab, error, validationResult, uploads,
                 runs, started, chosen, requests>>

\* onClick={() => setActiveTab(id)} of the three tab buttons
SetActiveTab(id) ==
  /\ activeTab' = id
  /\ UNCHANGED <<table, out, uploadedData, analysisResults, recommendations,
                 isAnalyzing, analysisProgress, error, validationResult,
                 uploads, runs, timers, started, chosen, requests>>

AppNext ==
  \/ \E file \in Files : ChooseFile(file)
  \/ \E upload \in uploads : FileProcessed(upload)
  \/ StartAnalysis
  \/ \E run \in runs, reply \in Replies : AnalysisAnswered(run, reply)
  \/ \E run \in runs, reply \in Replies : RecommendationsAnswered(run, reply)
  \/ TimerFires
  \/ \E id \in Tabs : SetActiveTab(id)

AppSpec == AppInit /\ [][AppNext]_vars

\* The service settles every request: the continuation of an await runs once
\* its promise resolves or rejects
AppFairSpec ==
  /\ AppSpec
  /\ WF_vars(\E run \in runs, reply \in Replies : AnalysisAnswered(run, reply))
  /\ WF_vars(\E run \in runs, reply \in Replies :
               RecommendationsAnswered(run, reply))

\* ------------------------------------------------------------ properties

\* The elements of a sequence
Range(seq) == {seq[i] : i \in 1..Len(seq)}

\* The table has a header row with at least one cell
HasHeaders == "headers" \in DOMAIN table /\ Len(table.headers) > 0

\* The last call was of op and it returned
Returned(op) == out.op = op /\ out.result.kind = "return"

\* validate returned a verdict for a table with headers
Validated == Returned("validateMediaData") /\ HasHeaders

\* The eight columns of validateMediaData's idealColumns
IdealFields ==
  {"channel", "ctr", "cpm", "reach", "frequency", "impressions", "clicks", "cost"}

\* The fields among S that the Header Matcher matches against the table's
\* headers
Matchable(S) == {f \in S : findColumnMatch(table.headers, f).value.found}

\* isValid iff k >= 2 and dataQuality = 'excellent' iff k >= 4
GradedBy(verdict, k) ==
  /\ verdict.isValid <=> k >= 2
  /\ verdict.dataQuality = "excellent" <=> k >= 4

C3_GradeByCount ==
  Validated =>
    LET n == Len(out.result.value.foundColumns)
    IN /\ out.result.value.isValid <=> n >= 2
       /\ n >= 4 => out.result.value.dataQuality = "excellent"
       /\ n \in {2, 3} => out.result.value.dataQuality = "good"
       /\ n < 2 => out.result.value.dataQuality = "limited"

\* A verdict with exactly four columns found, graded excellent
C3_Witness ==
  /\ Validated
  /\ Len(out.result.value.foundColumns) = 4
  /\ out.result.value.dataQuality = "excellent"

\* The Header Matcher returned for a field of the catalogue
Matched == Returned("findColumnMatch") /\ out.targetColumn \in Fields

\* The headers of the table, normalized, and the aliases of the field asked
NormalizedHeaders == normalizeHeaders(table.headers)

Aliases == COLUMN_MAPPINGS[out.targetColumn]

\* Alias k has a header that satisfies the matching predicate
AliasHits(k) ==
  \E i \in 1..Len(NormalizedHeaders) :
     headerMatches(NormalizedHeaders[i], Aliases[k])

\* The aliases among names that have a header among nh satisfying the
\* matching predicate, by their position
HittingAliases(nh, names) ==
  {k \in 1..Len(names) : \E i \in 1..Len(nh) : headerMatches(nh[i], names[k])}

\* The match is the lowest-index header among nh that satisfies the
\* predicate for the alias
LowestHeaderFor(nh, alias, match) ==
  /\ match.found
  /\ headerMatches(nh[match.index + 1], alias)
  /\ \A i \in 1..match.index : ~headerMatches(nh[i], alias)

\* When some alias hits, the match is the lowest header of the earliest one
EarliestAliasWins(nh, names, hits, match) ==
  hits # {} =>
    LowestHeaderFor(nh, names[CHOOSE k \in hits : \A e \in hits : k <= e],
                    match)

\* C4: alias order takes precedence over header order: the header returned is
\* the lowest-index header that satisfies the predicate for the earliest
\* alias that has any satisfying header, whatever headers later aliases match.
C4_AliasPrecedence ==
  Matched =>
    EarliestAliasWins(NormalizedHeaders, Aliases,
                      HittingAliases(NormalizedHeaders, Aliases),
                      out.result.value)

\* The match for cpm is the second header, hit by the first alias, though the
\* first header is hit by a later alias
C4_Witness ==
  /\ Matched
  /\ out.targetColumn = "cpm"
  /\ out.result.value.index = 1
  /\ AliasHits(1)
  /\ ~headerMatches(NormalizedHeaders[1], Aliases[1])
  /\ \E k \in 2..Len(Aliases) : headerMatches(NormalizedHeaders[1], Aliases[k])

\* The five ways a normalized header h and an alias a can match
EqualOrContains(h, a) ==
  \/ h = a
  \/ includes(h, a)
  \/ includes(a, h)
  \/ removeChars(h, {"%"}) = a
  \/ includes(removeChars(h, {"%"}), a)
  \/ removeChars(h, {"-", "_"}) = removeChars(a, {"-", "_"})
  \/ includes(removeChars(h, {"-", "_"}), removeChars(a, {"-", "_"}))

\* C5: match returns found:true exactly when some alias of the field and some
\* normalized header are equal, or the header contains the alias, or the
\* alias contains the header, or the header with '%' stripped equals or
\* contains the alias, or the header with '-' and '_' stripped equals or
\* contains the alias stripped likewise; otherwise it returns found:false
\* (index -1, no name).
C5_FoundIffSomePair ==
  Returned("findColumnMatch") =>
    LET names == IF out.targetColumn \in Fields THEN Aliases ELSE <<>>
        somePair == \E k \in 1..Len(names) :
                      \E i \in 1..Len(NormalizedHeaders) :
                         EqualOrContains(NormalizedHeaders[i], names[k])
    IN /\ out.result.value.found <=> somePair
       /\ ~somePair => /\ out.result.value.index = 0 - 1
                       /\ out.result.value.originalName = null

\* ctr is found for the header 'ct', which only an alias containing the
\* header matches
C5_Witness ==
  /\ Matched
  /\ out.targetColumn = "ctr"
  /\ table.headers = <<hCt>>
  /\ out.result.value.found

\* C6: validate on a table whose headers are empty or absent returns, without
\* raising, a verdict with isValid = false and an empty columnMappings.
C6_NoHeadersVerdict ==
  (out.op = "validateMediaData" /\ ~HasHeaders) =>
    /\ out.result.kind = "return"
    /\ ~out.result.value.isValid
    /\ DOMAIN out.result.value.columnMappings = {}

\* validate returned for a table whose headers are absent
C6_Witness ==
  /\ Returned("validateMediaData")
  /\ "headers" \notin DOMAIN table
  /\ ~out.result.value.isValid

\* C7: for a table with a non-empty headers sequence, whatever the header
\* cells are (text, number, or an empty cell, which the parser hands over as
\* null), validate returns a verdict and never raises.
C7_ValidateNeverRaises ==
  (out.op = "validateMediaData" /\ HasHeaders) => out.result.kind = "return"

\* C8: on a table with empty headers and any number of rows, validate,
\* aggregate, getDataSummary and prepare each return a value and none raises.
C8_TotalWithoutHeaders ==
  (/\ out.op \in {"validateMediaData", "calculateBasicMetrics",
                  "getDataSummary", "prepareDataForAI"}
   /\ "headers" \in DOMAIN table
   /\ table.headers = <<>>
   /\ "rows" \in DOMAIN table
   /\ \A i \in 1..Len(table.rows) : table.rows[i].js = "array")
    => out.result.kind = "return"

\* The statistics of some mapped numeric field throw inside aggregate's try
\* block
FieldComputationThrows ==
  /\ "rows" \in DOMAIN table
  /\ Len(table.rows) > 0
  /\ validateMediaData(table).kind = "return"
  /\ tryBlock(table, validateMediaData(table).value,
              validateMediaData(table).value.columnMappings).kind = "throw"

\* C9: if the computation of a field's statistics throws inside aggregate,
\* aggregate does not propagate the exception: it returns a minimal snapshot
\* with the row count and an error marker.
C9_DegradesToMinimalSnapshot ==
  (out.op = "calculateBasicMetrics" /\ FieldComputationThrows) =>
    /\ out.result.kind = "return"
    /\ "totalCampaigns" \in DOMAIN out.result.value
    /\ "error" \in DOMAIN out.result.value

\* C10: aggregate on a table with zero rows or absent rows, whatever its
\* headers, returns the no-data sentinel null: no exception, no snapshot.
C10_NoRowsIsNull ==
  (/\ out.op = "calculateBasicMetrics"
   /\ ("rows" \notin DOMAIN table \/ table.rows = <<>>))
    => out.result = Return(null)

\* aggregate returned null for a table with headers and zero rows
C10_Witness ==
  /\ out.op = "calculateBasicMetrics"
  /\ HasHeaders
  /\ "rows" \in DOMAIN table
  /\ table.rows = <<>>
  /\ out.result = Return(null)

\* aggregate returned a snapshot (not null) for the table
Aggregated ==
  /\ Returned("calculateBasicMetrics")
  /\ out.result.value # null

\* The names a numeric field's statistics have in the snapshot
StatKeys ==
  [ctr |-> {"avgCTR", "maxCTR", "minCTR"},
   cpm |-> {"avgCPM", "maxCPM", "minCPM"},
   reach |-> {"totalReach", "avgReach"},
   frequency |-> {"avgFrequency"},
   cost |-> {"totalCost", "avgCost"}]

\* The numeric field f has a match among the table's headers
Mapped(f) == HasHeaders /\ findColumnMatch(table.headers, f).value.found

\* The cell of row i at the header index, parsed: as a whole number for
\* reach, as a decimal number for the other fields
ParsedAt(f, index, i) ==
  IF f = "reach"
  THEN parseInt(cellAt(table.rows[i], index))
  ELSE parseFloat(cellAt(table.rows[i], index))

\* The column at the header index, parsed, row by row
ParsedColumn(f, index) ==
  array([i \in 1..Len(table.rows) |-> ParsedAt(f, index, i)])

\* Those of the parsed cells that are numbers above zero, in row order
AboveZero(parsed) == SelectSeq(parsed, LAMBDA p : p # NaN /\ p.v > 0)

\* Their values, in hundredths
ValuesOf(kept) == array([k \in 1..Len(kept) |-> kept[k].v])

\* The values of the cells for f at the header index that parse as a number
\* above zero
SurvivingAt(f, index) == ValuesOf(AboveZero(ParsedColumn(f, index)))

\* The same at the header index matched for f
Surviving(f) ==
  SurvivingAt(f, findColumnMatch(table.headers, f).value.index)

\* The average the snapshot reports for f is the average of the values vs
AverageIs(f, snapshot, vs) ==
  CASE f = "ctr" -> /\ snapshot.avgCTR = toFixed2(sum(vs), Len(vs))
                    /\ snapshot.maxCTR = toFixed2(max(vs), 1)
                    /\ snapshot.minCTR = toFixed2(min(vs), 1)
    [] f = "cpm" -> /\ snapshot.avgCPM = toFixed2(sum(vs), Len(vs))
                    /\ snapshot.maxCPM = toFixed2(max(vs), 1)
                    /\ snapshot.minCPM = toFixed2(min(vs), 1)
    [] f = "reach" -> /\ snapshot.totalReach = Num(sum(vs))
                      /\ snapshot.avgReach = mathRound(sum(vs), Len(vs))
    [] f = "frequency" -> snapshot.avgFrequency = toFixed1(sum(vs), Len(vs))
    [] f = "cost" -> /\ snapshot.totalCost = Num(sum(vs))
                     /\ snapshot.avgCost = toFixed2(sum(vs), Len(vs))

\* The statistics of f in the snapshot are those of the values vs, and are
\* absent when there is no value
StatisticsOver(f, snapshot, vs) ==
  IF vs = <<>>
  THEN StatKeys[f] \cap DOMAIN snapshot = {}
  ELSE StatKeys[f] \subseteq DOMAIN snapshot /\ AverageIs(f, snapshot, vs)

\* The same for the match of f, when f is found
StatisticsOfMatch(f, snapshot, match) ==
  match.found => StatisticsOver(f, snapshot, SurvivingAt(f, match.index))

\* C11: in a snapshot aggregate returns, the statistics of each numeric field
\* (ctr, cpm, reach, frequency, cost) that has a match are computed over
\* exactly the cells at the matched header index that parse as a number above
\* zero; non-numeric, zero, negative and missing cells are left out while
\* their rows are still counted; and the statistics are present iff at least
\* one such cell remains.
C11_StatisticsOverPositiveCells ==
  Aggregated =>
    /\ out.result.value.totalRows = Num(Len(table.rows) * 100)
    /\ HasHeaders =>
         \A f \in numericColumns :
            StatisticsOfMatch(f, out.result.value,
                              findColumnMatch(table.headers, f).value)

\* A snapshot of two rows or more in which one field has statistics over
\* fewer cells than rows, and another mapped field has none
C11_Witness ==
  /\ Aggregated
  /\ Len(table.rows) >= 2
  /\ \E f \in numericColumns :
       /\ Mapped(f)
       /\ Len(Surviving(f)) \in 1..(Len(table.rows) - 1)
       /\ StatKeys[f] \subseteq DOMAIN out.result.value
  /\ \E f \in numericColumns :
       /\ Mapped(f)
       /\ Surviving(f) = <<>>
       /\ StatKeys[f] \cap DOMAIN out.result.value = {}

\* The four properties every snapshot starts with
BaseKeys == {"totalCampaigns", "totalRows", "columnsFound", "dataQuality"}

\* The snapshot's columnsFound and dataQuality are those of the verdict
CarriesVerdict(snapshot, verdict) ==
  IF HasHeaders
  THEN /\ snapshot.columnsFound = verdict.foundColumns
       /\ snapshot.dataQuality = verdict.dataQuality
  ELSE /\ {"foundColumns", "dataQuality"} \cap DOMAIN verdict = {}
       /\ snapshot.columnsFound = undefined
       /\ snapshot.dataQuality = undefined

\* C12: every snapshot aggregate returns reports totalRows = totalCampaigns =
\* the number of rows, and carries as columnsFound and dataQuality the
\* foundColumns and dataQuality of validate's verdict on the same table (both
\* undefined for the verdict of a table without headers), whatever numeric
\* values survived and whatever the headers.
C12_CountsAndVerdict ==
  Aggregated =>
    /\ out.result.value.totalRows = Num(Len(table.rows) * 100)
    /\ out.result.value.totalCampaigns = Num(Len(table.rows) * 100)
    /\ BaseKeys \subseteq DOMAIN out.result.value
    /\ CarriesVerdict(out.result.value, validateMediaData(table).value)

\* A snapshot for a table with matched columns in which no numeric value
\* survived: only the counts, columnsFound and dataQuality
C12_Witness ==
  /\ Aggregated
  /\ HasHeaders
  /\ out.result.value.columnsFound # <<>>
  /\ DOMAIN out.result.value = BaseKeys
  /\ out.result.value.totalRows = Num(Len(table.rows) * 100)

\* The names under which a snapshot would hold a field's average, minimum,
\* maximum and sum
AvgKey ==
  [ctr |-> "avgCTR", cpm |-> "avgCPM", reach |-> "avgReach",
   frequency |-> "avgFrequency", cost |-> "avgCost"]

MinKey ==
  [ctr |-> "minCTR", cpm |-> "minCPM", reach |-> "minReach",
   frequency |-> "minFrequency", cost |-> "minCost"]

MaxKey ==
  [ctr |-> "maxCTR", cpm |-> "maxCPM", reach |-> "maxReach",
   frequency |-> "maxFrequency", cost |-> "maxCost"]

SumKey ==
  [ctr |-> "totalCTR", cpm |-> "totalCPM", reach |-> "totalReach",
   frequency |-> "totalFrequency", cost |-> "totalCost"]

\* The numeric field f has a match and at least one surviving value
HasValues(f) == Mapped(f) /\ Surviving(f) # <<>>

AveragePerField(f, snapshot, vs) ==
  vs # <<>> =>
    /\ AvgKey[f] \in DOMAIN snapshot
    /\ IF f \in {"ctr", "cpm"}
       THEN /\ {MinKey[f], MaxKey[f]} \subseteq DOMAIN snapshot
            /\ snapshot[MinKey[f]] = toFixed2(min(vs), 1)
            /\ snapshot[MaxKey[f]] = toFixed2(max(vs), 1)
       ELSE {MinKey[f], MaxKey[f]} \cap DOMAIN snapshot = {}
    /\ IF f \in {"reach", "cost"}
       THEN /\ SumKey[f] \in DOMAIN snapshot
            /\ snapshot[SumKey[f]] = Num(sum(vs))
       ELSE SumKey[f] \notin DOMAIN snapshot

AveragePerMatch(f, snapshot, match) ==
  match.found => AveragePerField(f, snapshot, SurvivingAt(f, match.index))

Sampled ==
  /\ out.op \in {"prepareDataForAI", "analyzeMediaData"}
  /\ out.result.kind = "return"

\* C14: for a table with n rows, the sample sent towards the narrative
\* service (sampleRows of prepareDataForAI, and the rows in the prompt of
\* analyzeMediaData) is exactly the first min(n, 10) rows in their original
\* order, never more than 10, while the total row count reported is n.
C14_SampleIsFirstTen ==
  Sampled =>
    /\ Len(out.result.value.sampleRows) <= 10
    /\ Len(out.result.value.sampleRows)
         = (IF Len(table.rows) < 10 THEN Len(table.rows) ELSE 10)
    /\ \A i \in 1..Len(out.result.value.sampleRows) :
          out.result.value.sampleRows[i] = table.rows[i]
    /\ out.result.value.totalRows = Num(Len(table.rows) * 100)

\* prepare returned for a table of more than ten rows: ten rows in the
\* sample, the total above ten
C14_Witness ==
  /\ Returned("prepareDataForAI")
  /\ Len(table.rows) > 10
  /\ Len(out.result.value.sampleRows) = 10
  /\ out.result.value.sampleRows[10] = table.rows[10]
  /\ out.result.value.totalRows = Num(Len(table.rows) * 100)

\* The table of the scenario: headers 'Platform', 'Click-Through Rate',
\* 'CPM ($)', 'Total Reach' and the single row 'Facebook', 2.3, 15.5, 45000
ScenarioTable ==
  [headers |-> <<hPlatform, hClickThroughRate, hCpmDollar, hTotalReach>>,
   rows |-> <<Arr(<<cFacebook, Num(230), Num(1550), Num(4500000)>>)>>]

\* C16: on the scenario table validate finds exactly the four fields channel,
\* ctr, cpm and reach (no other field), with isValid = true and dataQuality =
\* 'excellent', and aggregate yields avgCTR = 2.30, avgCPM = 15.50 and
\* totalReach = 45000.
C16_ScenarioFindsFourFields ==
  table = ScenarioTable =>
    /\ out.op = "validateMediaData" =>
         /\ out.result.kind = "return"
         /\ Range(out.result.value.foundColumns)
              = {"channel", "ctr", "cpm", "reach"}
         /\ out.result.value.isValid
         /\ out.result.value.dataQuality = "excellent"
    /\ out.op = "calculateBasicMetrics" =>
         /\ out.result.kind = "return"
         /\ out.result.value.avgCTR = Str(<<"2", ".", "3", "0">>)
         /\ out.result.value.avgCPM = Str(<<"1", "5", ".", "5", "0">>)
         /\ out.result.value.totalReach = Num(4500000)

\* Some raw header of the table, lowercased, contains 'platform' or 'source'
SomeHeaderNamesChannel ==
  \E i \in 1..Len(table.headers) :
     \/ includes(toLowerCase(toString(table.headers[i])), platform)
     \/ includes(toLowerCase(toString(table.headers[i])), source)

\* C17: for every table with non-empty headers, the verdict's hasChannelData
\* flag is true if and only if a channel match exists or some raw header,
\* lowercased, contains the text 'platform' or 'source'; otherwise it is
\* false.
C17_ChannelFlagIsBoolean ==
  Validated =>
    out.result.value.hasChannelData
      = Bool("channel" \in DOMAIN out.result.value.columnMappings
             \/ SomeHeaderNamesChannel)

\* The entry m of columnMappings under the key c is a match found for c at a
\* header of the table, named as that header is written
EntryIsMatch(c, m) ==
  /\ m.found
  /\ m.mappedTo = c
  /\ m.index \in 0..(Len(table.headers) - 1)
  /\ m.originalName = table.headers[m.index + 1]

\* C18: every entry of a verdict's columnMappings is keyed by a found field
\* and holds one match with found = true, mappedTo equal to its key, an index
\* within the headers and originalName equal to the raw header at that
\* index; a field that is not found has no entry, and an unfound match has
\* index -1 and no name.
C18_MappingsHoldFoundMatches ==
  /\ Validated =>
       /\ DOMAIN out.result.value.columnMappings
            = Range(out.result.value.foundColumns)
       /\ Range(out.result.value.missingColumns)
            \cap DOMAIN out.result.value.columnMappings = {}
       /\ \A c \in DOMAIN out.result.value.columnMappings :
             EntryIsMatch(c, out.result.value.columnMappings[c])
  /\ Returned("findColumnMatch") =>
       IF out.result.value.found
       THEN EntryIsMatch(out.targetColumn, out.result.value)
       ELSE /\ out.result.value.index = 0 - 1
            /\ out.result.value.originalName = null
            /\ out.result.value.mappedTo = out.targetColumn

\* A verdict with a field missing and with two fields matched at the same
\* header, whose name is kept as written (not normalized)
C18_Witness ==
  /\ Validated
  /\ out.result.value.missingColumns # <<>>
  /\ \E c, d \in DOMAIN out.result.value.columnMappings :
        /\ c # d
        /\ out.result.value.columnMappings[c].index
             = out.result.value.columnMappings[d].index
        /\ out.result.value.columnMappings[c].originalName
             # Str(normalizeHeader(out.result.value.columnMappings[c].originalName))

\* The upper-case letter of a lower-case letter, any other character itself
UpperCaseChar(c) ==
  IF \E u \in DOMAIN LowerCaseOf : LowerCaseOf[u] = c
  THEN CHOOSE u \in DOMAIN LowerCaseOf : LowerCaseOf[u] = c
  ELSE c

\* A '_' strictly inside s, between two characters that are neither
\* whitespace nor '_', separates two words
SeparatesWords(s, i) ==
  /\ s[i] = "_"
  /\ i \in 2..(Len(s) - 1)
  /\ s[i - 1] \notin WhiteSpace \cup {"_"}
  /\ s[i + 1] \notin WhiteSpace \cup {"_"}

\* s from its i-th character on, each '_' that separates two words written
\* as a run of two whitespace characters
RECURSIVE Spaced(_, _)
Spaced(s, i) ==
  IF i > Len(s) THEN <<>>
  ELSE (IF SeparatesWords(s, i) THEN <<" ", "\t">> ELSE <<s[i]>>)
       \o Spaced(s, i + 1)

\* Four ways of writing a header that differ from it only in letter case, in
\* leading and trailing whitespace, or in the separator between words; a
\* header that is not text has no other way
Rewritten(cell, way) ==
  IF cell.js # "string" THEN cell
  ELSE CASE way = "upper" -> Str([i \in 1..Len(cell.s) |-> UpperCaseChar(cell.s[i])])
         [] way = "padded" -> Str(<<" ", "\t">> \o cell.s \o <<" ">>)
         [] way = "underscored" -> Str(replaceWhitespaceRuns(trim(cell.s)))
         [] way = "spaced" -> Str(Spaced(cell.s, 1))

Ways == {"upper", "padded", "underscored", "spaced"}

RewrittenHeaders(way) ==
  array([i \in 1..Len(table.headers) |-> Rewritten(table.headers[i], way)])

\* The call returned a match with the found flag and the index of match
SameMatch(result, match) ==
  /\ result.kind = "return"
  /\ result.value.found = match.found
  /\ result.value.index = match.index

\* C19: header matching is insensitive to letter case, to leading and
\* trailing whitespace, and to whether words are separated by a run of
\* whitespace or by a single underscore: for headers rewritten in these
\* respects only, findColumnMatch returns the same found flag and the same
\* index for every field.
C19_MatchIgnoresCaseAndSpacing ==
  Returned("findColumnMatch") =>
    \A way \in Ways :
       SameMatch(findColumnMatch(RewrittenHeaders(way), out.targetColumn),
                 out.result.value)

\* ctr found at 'Click-Through Rate', the second header after 'cpm_cost':
\* each rewriting gives other headers than the table's
C19_Witness ==
  /\ Matched
  /\ out.targetColumn = "ctr"
  /\ table.headers = <<hCpmCost, hClickThroughRate>>
  /\ out.result.value.found
  /\ out.result.value.index = 1
  /\ \A way \in Ways : RewrittenHeaders(way) # table.headers

\* The numeric field f has a match, and the parse of its cell throws on some
\* row of the table
FieldThrows(f) ==
  /\ Mapped(f)
  /\ \E i \in 1..Len(table.rows) :
        throwsOnRow(table.rows[i],
                    findColumnMatch(table.headers, f).value.index)

\* C20: a failure while aggregating one numeric field is contained to that
\* field: aggregate returns a snapshot, and the statistics of the other
\* numeric fields that have surviving values, computed before or after it,
\* are present in it.
C20_FailureContainedToField ==
  (/\ out.op = "calculateBasicMetrics"
   /\ HasHeaders
   /\ \A i \in 1..Len(table.headers) : hasToString(table.headers[i])
   /\ "rows" \in DOMAIN table
   /\ \A i \in 1..Len(table.rows) : table.rows[i].js = "array"
   /\ \E f \in numericColumns : FieldThrows(f))
    => /\ out.result.kind = "return"
       /\ \A g \in numericColumns :
            (~FieldThrows(g) /\ HasValues(g)) =>
              StatKeys[g] \subseteq DOMAIN out.result.value

\* C24: a header whose normalized form is the empty string (a whitespace-only
\* header) is never returned as the match of a field, and a table whose only
\* headers are blank has no found fields.
C24_BlankHeaderNeverMatches ==
  /\ (Matched /\ out.result.value.found) =>
       NormalizedHeaders[out.result.value.index + 1] # <<>>
  /\ (Validated /\ \A i \in 1..Len(table.headers) :
                      table.headers[i] = hBlank) =>
       out.result.value.foundColumns = <<>>

\* C30: the 'platform'/'source' heuristic of validate never changes the
\* outcome: for every table with non-empty headers, hasChannelData is truthy
\* if and only if channel is among the found columns, because a header that
\* contains 'platform' or 'source' is already matched to channel.
C30_HeuristicIsRedundant ==
  Validated =>
    /\ Truthy(out.result.value.hasChannelData)
         <=> "channel" \in Range(out.result.value.foundColumns)
    /\ SomeHeaderNamesChannel
         => "channel" \in Range(out.result.value.foundColumns)

\* A verdict for the header 'Traffic Source', which contains 'source' and is
\* no alias of channel itself: channel is found and the flag is truthy
C30_Witness ==
  /\ Validated
  /\ table.headers = <<hTrafficSource>>
  /\ SomeHeaderNamesChannel
  /\ out.result.value.columnMappings["channel"].index = 0
  /\ Truthy(out.result.value.hasChannelData)

\* ------------------------------------------------- properties of the component

\* The replies that make a step fail: the network call fails, the status is
\* not OK, or the response text is not JSON
FailingReplies ==
  {reply \in Replies :
     \/ reply.fetch = "rejects"
     \/ ~reply.ok
     \/ reply.text.body = "malformed"}

NonEmptyMessage(m) == m # null /\ m.template # ""

InFlight(id) == \E run \in runs : run.id = id

\* The run has ended with an error message set and isAnalyzing = false
EndedInError(run) ==
  /\ NonEmptyMessage(error')
  /\ ~isAnalyzing'
  /\ ~InFlight(run.id)'

\* C21: when the service answers the analysis request or the recommendations
\* request of a run with a non-OK status, a failed network call or a text
\* that is not JSON, the run ends with a non-empty error message set and
\* isAnalyzing = false, and the state the failed step would have stored
\* (analysisResults, recommendations) keeps its value.
C21_FailureEndsRunWithMessage ==
  [][\A run \in runs, reply \in FailingReplies :
       /\ AnalysisAnswered(run, reply) =>
            EndedInError(run) /\ analysisResults' = analysisResults
       /\ RecommendationsAnswered(run, reply) =>
            EndedInError(run) /\ recommendations' = recommendations]_vars

\* A run whose analysis was stored and whose recommendations request was
\* answered with text that is not JSON
C21_Witness ==
  /\ started = 1 /\ runs = {}
  /\ requests = <<[run |-> 1, step |-> "analysis"],
                  [run |-> 1, step |-> "recommendations"]>>
  /\ error = analysisErrorMessage([message |-> "Unexpected token"])
  /\ ~isAnalyzing
  /\ analysisResults # null /\ recommendations = null

\* The places of the log where the run sent a request of the step
Issued(log, id, step) ==
  {i \in 1..Len(log) : log[i] = [run |-> id, step |-> step]}

\* The run sends its recommendations request in this step
SendsRecommendations(id) ==
  /\ Issued(requests, id, "recommendations") = {}
  /\ Issued(requests', id, "recommendations") # {}

\* C22: a run sends at most one analysis request and at most one
\* recommendations request, and it sends the recommendations request only
\* in the step in which its analysis request, sent before, is answered with
\* success and the result is stored in analysisResults.
C22_NoRetryAndStepsOrdered ==
  [][/\ \A id \in 1..started', step \in {"analysis", "recommendations"} :
          Cardinality(Issued(requests', id, step)) <= 1
     /\ \A id \in 1..started' :
          SendsRecommendations(id) =>
            /\ Issued(requests, id, "analysis") # {}
            /\ \E run \in runs, reply \in Replies \ FailingReplies :
                 run.id = id /\ AnalysisAnswered(run, reply)
            /\ \E run \in runs' :
                 run.id = id /\ run.analysisData = analysisResults']_vars

\* Two runs, each of which sent its two requests in order
C22_Witness ==
  requests = <<[run |-> 1, step |-> "analysis"],
               [run |-> 1, step |-> "recommendations"],
               [run |-> 2, step |-> "analysis"],
               [run |-> 2, step |-> "recommendations"]>>

\* The ideal fields matched by the headers of the parsed file that are text
\* or numbers
FieldsMatchedIn(data) ==
  {f \in IdealFields :
     findColumnMatch(SelectSeq(processCSVFile(data).headers, hasToString), f).value.found}

\* The CSV files whose parse completes and whose headers match fewer than two
\* ideal fields
PartialFiles ==
  {file \in Files :
     /\ isCsvFile(file)
     /\ file.parse = "complete"
     /\ Cardinality(FieldsMatchedIn(file.data)) < 2}

\* After the upload the table and its verdict are stored, the verdict is not
\* valid, and its suggestions are the error message
StoredWithSuggestions(file) ==
  /\ uploadedData' = processCSVFile(file.data)
  /\ validationResult' # null
  /\ ~validationResult'.isValid
  /\ error' = validationResult'.suggestions

\* C23: when the upload handler finishes with a CSV file whose headers match
\* fewer than two ideal fields, uploadedData holds the file's table,
\* validationResult holds a verdict with isValid = false, the error message
\* is the verdict's suggestions, and the Analyze button, shown whenever
\* uploadedData is set, can start a run on that table.
C23_PartialDataDoesNotBlock ==
  [][\A upload \in uploads :
       (upload.file \in PartialFiles /\ FileProcessed(upload)) =>
         StoredWithSuggestions(upload.file)]_vars

\* The analysis is an analysis of what the prompt shows of the table
AnalysisOf(analysisData, data) ==
  /\ data # null
  /\ analysisData.analysisOf = analyzeMediaDataPrompt(data).value

\* C25: whenever analysisResults is non-null it is the analysis of the table
\* held in uploadedData, and recommendations, when non-null and made from an
\* analysis, are made from an analysis of that table: no upload leaves the
\* results of a previous file next to the new file's data.
C25_ResultsAreOfCurrentTable ==
  /\ analysisResults # null => AnalysisOf(analysisResults, uploadedData)
  /\ (recommendations # null /\ recommendations.recommendedFrom # null) =>
       AnalysisOf(recommendations.recommendedFrom, uploadedData)

\* C26: while isAnalyzing is true the progress message is not empty; the
\* callback a successful run leaves pending never blanks the message of a
\* later run.
C26_ProgressShownWhileAnalyzing == isAnalyzing => analysisProgress # ""

\* C27: isAnalyzing is true exactly while a run is in flight, at most one run
\* is in flight at a time, and, the service settling every request, a run in
\* flight always comes to its end with isAnalyzing = false.
C27_AnalyzingExactlyWhileInFlight ==
  /\ [](isAnalyzing <=> runs # {})
  /\ [](Cardinality(runs) <= 1)
  /\ (isAnalyzing ~> ~isAnalyzing)

\* A run is in flight and the upload tab shows the Analyze button, disabled,
\* with a gesture to spare
C27_Witness ==
  /\ isAnalyzing /\ Cardinality(runs) = 1
  /\ activeTab = "upload" /\ uploadedData # null
  /\ chosen + started < MaxGestures

\* C28: between runs, recommendations, when non-null, were made from the
\* analysis held in analysisResults; a run whose recommendations step fails
\* does not leave its analysis next to the recommendations of an earlier run.
C28_RecommendationsFromCurrentAnalysis ==
  (runs = {} /\ recommendations # null) =>
    recommendations.recommendedFrom = analysisResults

\* C29 as stated: recommendations non-null implies analysisResults non-null
C29_RecommendationsImplyAnalysis ==
  recommendations # null => analysisResults # null

\* The replies whose text is the JSON literal null
NullReplies ==
  {reply \in Replies :
     reply.fetch = "resolves" /\ reply.ok /\ reply.text.body = "null"}

\* The step stores the answer null of the service as the analysis
StoresNullAnalysis ==
  \E run \in runs, reply \in NullReplies : AnalysisAnswered(run, reply)

\* The step stores the answer null of the service as the recommendations
StoresNullRecommendations ==
  \E run \in runs, reply \in NullReplies : RecommendationsAnswered(run, reply)

\* The step stores the recommendations of a run that had stored its analysis
StoresRecommendationsOf(run) ==
  /\ run.step = "recommendations"
  /\ Issued(requests, run.id, "analysis") # {}
  /\ recommendations' # null =>
       recommendations'.recommendedFrom = run.analysisData

\* C29 (amended): recommendations are stored only by a run that has stored
\* its analysis before; analysisResults and recommendations go back to null
\* only when the service's answer is the JSON literal null, never by an
\* upload, a failed run or a tab change; and recommendations come to stand
\* next to a null analysisResults only through such an answer to an analysis
\* request.
C29_StoredInOrderAndResetOnlyByNullAnswer ==
  [][/\ recommendations' # recommendations =>
          \E run \in runs : StoresRecommendationsOf(run)
     /\ (analysisResults # null /\ analysisResults' = null) => StoresNullAnalysis
     /\ (recommendations # null /\ recommendations' = null) =>
          StoresNullRecommendations
     /\ (recommendations' # null /\ analysisResults' = null) =>
          \/ recommendations # null /\ analysisResults = null
          \/ StoresNullAnalysis
          \/ \E run \in runs : run.analysisData = null]_vars

\* Both results of the first run are still there after the second run has
\* failed and the tab has been changed
C29_Witness ==
  /\ started = 2 /\ runs = {} /\ error # null
  /\ activeTab = "recommendations"
  /\ analysisResults # null /\ recommendations # null
  /\ analysisResults.answerTo = 1 /\ recommendations.answerTo = 1

====
